---- MODULE Spec2Model ----
(***************************************************************************)
(* A model of state.Machine (src/state/machine.go): the blocking wait      *)
(* Machine.WaitAgentAlive against the presence watcher, and the machine    *)
(* handle's lifecycle and mutator operations against the document store.   *)
(* With it: Machine.Units against the units collection, the client call   *)
(* remoterelations.State.WatchRemoteApplication and cmd.Main               *)
(* (src/unnamed/part_000), and the change watchers and the relation-set    *)
(* watcher as the specification describes them.                            *)
(***************************************************************************)
EXTENDS Integers, Sequences, FiniteSets, TLC

(***************************************************************************)
(* Bounds of the model.                                                    *)
(***************************************************************************)
\* the clock stops advancing at MaxTime
MaxTime == 5
\* the timeouts a caller passes to WaitAgentAlive are 1..MaxTimeout
MaxTimeout == 2
\* the number of WaitAgentAlive calls made one after the other
MaxCalls == 2
\* SetInstanceId and SetAgentTools commit only while the stored document's
\* txn-revno is below MaxRevno
MaxRevno == 3
\* application names have at most MaxNameLen characters
MaxNameLen == 3
\* a command line has at most MaxArgs arguments
MaxArgs == 2

\* the ids of the machines a handle can stand for
MachineIds == {0, 1}
\* the errors a presence watcher can die with
WatcherErrs == {"presence: connection lost", "presence: stopped by error"}
Timeouts == 1..MaxTimeout
\* the handles (*Machine values) held on the one stored machine
Handles == {1, 2}
\* the instance ids a caller passes to SetInstanceId
InstanceIds == {"", "i-123"}
\* the non-empty instance ids written in the round trip
RoundTripIds == {"i-123", "i-456"}
\* the tools a caller passes to SetAgentTools
ToolsInputs == { [Series |-> "precise", Arch |-> "amd64"],
                 [Series |-> "", Arch |-> "amd64"],
                 [Series |-> "precise", Arch |-> ""] }

VARIABLES
    \* ---- Machine.WaitAgentAlive and the presence watcher ----
    wpc,        \* where the call is: "idle", "select" (blocked in the select), "done"
    wid,        \* m.doc.Id of the handle the call is made on
    wi,         \* the loop counter i
    wch,        \* the channel ch the call made (channels are numbered by call)
    wtimeout,   \* the timeout argument
    wtimer,     \* the instant the channel made by time.After(timeout) becomes ready
    wstart,     \* the instant the call started
    wend,       \* the instant the call ended
    wnotes,     \* the change.Alive values received on ch during this call, in order
    wnoteAt,    \* the instants at which they were received
    wfired,     \* the select case that ended the call
    wres,       \* how the call ended: [status, err]
    watches,    \* the subscriptions <<key, ch>> registered with the presence watcher
    pwDead,     \* the presence watcher has died (its Dead() channel is closed)
    pwErr,      \* what the watcher's Err() returns
    pwDeadAt,   \* the instant the watcher died
    now,        \* the clock
    calls,      \* WaitAgentAlive calls made so far
    \* ---- the machines collection and the Machine handles ----
    machines,   \* the machines collection: the set of stored machine documents
    m,          \* the handles: m[h].doc is the handle's snapshot of its document
    last,       \* the last call made on a handle: what it was, returned and found
    lifeLog,    \* the Life values committed to the stored document, in order
    epc,        \* per caller of the two-caller scenario: calls completed
    eres,       \* per caller of the two-caller scenario: the errors returned
    \* ---- the SetInstanceId / Refresh round trip on handle 1 ----
    rpc,        \* "start", "set" (SetInstanceId returned nil), "refreshed", "failed"
    rx,         \* the instance id passed to SetInstanceId
    \* ---- remoterelations.State.WatchRemoteApplication ----
    facadeCalls,  \* the calls made on st.facade, in order
    appWatchers,  \* the watchers made by NewApplicationRelationsWatcher
    wra,          \* the WatchRemoteApplication call made: its argument and results
    \* ---- Machine.Units and the units collection ----
    units,      \* the units collection: the set of stored unit documents
    upc,        \* where the Units call is: "idle", "loop", "returned"
    pudocs,     \* the documents the query by machineid returned
    ui,         \* the position of the range loop in pudocs
    ures,       \* the units appended so far (their names), the result at the end
    truths,     \* the answers the store would have given at each instant of the call
    \* ---- a change watcher, its receivers and the callers of Stop ----
    loop,       \* the watcher's loop: "running" or "exited" (its channel is closed)
    dying,      \* the watcher has been told to stop
    batch,      \* the changes collected since the last delivered batch
    receivers,  \* per receiver: "idle", "blocked", "batch" or "stopped" (what it got)
    stoppers,   \* per caller of Stop: "idle", "waiting" or "returned"
    stopErrs,   \* per caller of Stop: the error Stop returned
    stopDone,   \* a Stop call has completed
    lateBatch,  \* a batch was delivered after a Stop call had completed
    \* ---- the relation-set watcher of a remote application ----
    membership, \* the relations live in the application's membership
    changed,    \* the relations added or removed since the last delivered batch
    inbox,      \* the delivered batch not yet processed: <<>> or <<batch>>
    nested,     \* the relations that have a running nested unit-settings watcher
    released,   \* the relations whose nested watcher was stopped and released
    delivered,  \* the membership as it was when the last batch was delivered
    processed,  \* the last batch processed
    before,     \* the value of nested before that batch was processed
    \* ---- cmd.Main ----
    mainPc,     \* where Main is: "start", "parse", "init", "run", "returned"
    cmd,        \* the Command c
    args,       \* the arguments args
    flagSet,    \* the flag set f: the flags defined, the arguments left by Parse
    trace,      \* the steps made on the command so far, in order
    stepErrs,   \* the error each step made returned
    stderr,     \* what has been written to ctx.Stderr
    rc          \* the code Main returned: <<>> until it has, then <<code>>

waitVars == <<wpc, wid, wi, wch, wtimeout, wtimer, wstart, wend, wnotes, wnoteAt, wfired,
              wres, watches, pwDead, pwErr, pwDeadAt, now, calls>>

storeVars == <<machines, m, last, lifeLog>>
callerVars == <<epc, eres>>
rtVars == <<rpc, rx>>
remoteVars == <<facadeCalls, appWatchers, wra>>
unitVars == <<units, upc, pudocs, ui, ures, truths>>
watcherVars == <<loop, dying, batch, receivers, stoppers, stopErrs, stopDone, lateBatch>>
relationVars == <<membership, changed, inbox, nested, released, delivered, processed, before>>
mainVars == <<mainPc, cmd, args, flagSet, trace, stepErrs, stderr, rc>>
extVars == <<remoteVars, unitVars, watcherVars, relationVars, mainVars>>

vars == <<waitVars, storeVars, callerVars, rtVars, extVars>>

\* what the steps of WaitAgentAlive, of the handle operations and of the
\* two-caller scenario leave alone
waitFrame == <<storeVars, callerVars, rtVars, extVars>>
storeFrame == <<waitVars, callerVars, rtVars, extVars>>
ensureFrame == <<waitVars, rtVars, extVars>>
roundTripFrame == <<waitVars, callerVars, extVars>>
coreVars == <<waitVars, storeVars, callerVars, rtVars>>
remoteFrame == <<coreVars, unitVars, watcherVars, relationVars, mainVars>>
unitFrame == <<coreVars, remoteVars, watcherVars, relationVars, mainVars>>
watcherFrame == <<coreVars, remoteVars, unitVars, relationVars, mainVars>>
relationFrame == <<coreVars, remoteVars, unitVars, watcherVars, mainVars>>
mainFrame == <<coreVars, remoteVars, unitVars, watcherVars, relationVars>>

(***************************************************************************)
(* Errors.  An error value is a cause and the contexts it was wrapped in,  *)
(* outermost first; the nil error has the cause "nil".                     *)
(***************************************************************************)
NilErr == [ctx |-> <<>>, cause |-> "nil"]
Errorf(msg) == [ctx |-> <<>>, cause |-> msg]

\* defer trivial.ErrorContextf(&err, format, m): a non-nil error is prefixed
\* with the context, nil stays nil.
ErrorContextf(err, context) ==
    IF err = NilErr THEN NilErr
    ELSE [ctx |-> <<context>> \o err.ctx, cause |-> err.cause]

ErrTimeout == "still not alive after timeout"

\* m.globalKey(): "m#" + m.String()
globalKey(id) == <<"m#", id>>

WaitContext(id) == <<"waiting for agent of machine", id>>

(***************************************************************************)
(* The presence watcher as WaitAgentAlive uses it.                         *)
(***************************************************************************)
\* m.st.pwatcher.Watch(key, ch)
Watch(ws, key, ch) == ws \cup {<<key, ch>>}

\* m.st.pwatcher.Unwatch(key, ch)
Unwatch(ws, key, ch) == ws \ {<<key, ch>>}

\* m.st.pwatcher.Err() of a dead watcher: the failure it died with
WatcherErr == Errorf(pwErr)

\* the number of times the loop goes round the select
LoopLimit3 == 2 + 1
LoopLimit == 2

\* change.Alive taken as true whatever was received
AnyChangeAlive(change) == TRUE
\* if change.Alive
ChangeAlive(change) == change


(***************************************************************************)
(* Life, machine documents and the machines collection.                    *)
(***************************************************************************)
Alive == "alive"
Dying == "dying"
Dead == "dead"
LifeRank(l) == CASE l = Alive -> 0 [] l = Dying -> 1 [] l = Dead -> 2

\* the machineDoc of the machine the handles stand for, as first stored; a
\* nil *Tools is the empty sequence, a set one a sequence of one
TheMachine == 0
InitialDoc ==
    [Id |-> TheMachine, InstanceId |-> "", Principals |-> <<>>, Life |-> Alive,
     Tools |-> <<>>, TxnRevno |-> 1, Workers |-> <<"MachinerWorker">>]

\* newMachine(st, doc): the handle holds a copy of the document
newMachine(doc) == [doc |-> doc]

\* st.machines.FindId(id): the documents of the collection with that _id
FindId(coll, id) == {d \in coll : d.Id = id}

ErrAborted == Errorf("transaction aborted")
errNotAlive == Errorf("not alive")
notFound(what) == [ctx |-> <<what>>, cause |-> "not found"]

\* the assertions of the transactions
isAlive(d) == d.Life = Alive
notDead(d) == d.Life # Dead

\* txn.Op{C: machines, Id: id, Assertion: assert, Update: {$set: {field: value}}}
Op(id, assert, field, value) ==
    [Id |-> id, Assertion |-> assert, Field |-> field, Value |-> value]

\* whether document d satisfies the op's assertion
Asserted(op, d) ==
    CASE op.Assertion = "isAlive" -> isAlive(d)
      [] op.Assertion = "notDead" -> notDead(d)

\* document d after the op's $set
Updated(op, d) ==
    CASE op.Field = "life" -> [d EXCEPT !.Life = op.Value]
      [] op.Field = "instanceid" -> [d EXCEPT !.InstanceId = op.Value]
      [] op.Field = "tools" -> [d EXCEPT !.Tools = <<op.Value>>]

\* m.st.runner.Run(ops, "", nil) for a single op: the update is applied, and
\* the document's txn-revno raised, when the document exists and satisfies the
\* assertion; otherwise nothing is written and the runner answers ErrAborted.
Run(coll, op) ==
    IF FindId(coll, op.Id) # {} /\ \A d \in FindId(coll, op.Id) : Asserted(op, d)
      THEN [err |-> NilErr,
            coll |-> {IF d.Id = op.Id
                        THEN [Updated(op, d) EXCEPT !.TxnRevno = @ + 1]
                        ELSE d : d \in coll},
            ops |-> <<op>>]
      ELSE [err |-> ErrAborted, coll |-> coll, ops |-> <<op>>]

\* onAbort(err, abortErr): the runner's ErrAborted becomes abortErr
onAbort(err, abortErr) == IF err = ErrAborted THEN abortErr ELSE err

\* ensureDying(st, coll, id, desc): assert Life is Alive, set it to Dying; an
\* abort because Life was already past Alive is success, an abort because the
\* document is gone is not-found.
ensureDying(coll, id) ==
    LET r == Run(coll, Op(id, "isAlive", "life", Dying))
    IN  IF r.err # ErrAborted THEN r
        ELSE IF FindId(coll, id) # {}
               THEN [r EXCEPT !.err = NilErr]
               ELSE [r EXCEPT !.err = notFound(<<"machine", id>>)]

\* ensureDead(st, coll, id, desc, nil, ""): assert Life is not Dead, set it
\* to Dead; same treatment of an abort.
ensureDead(coll, id) ==
    LET r == Run(coll, Op(id, "notDead", "life", Dead))
    IN  IF r.err # ErrAborted THEN r
        ELSE IF FindId(coll, id) # {}
               THEN [r EXCEPT !.err = NilErr]
               ELSE [r EXCEPT !.err = notFound(<<"machine", id>>)]

\* the Life of the stored document of TheMachine (when it exists)
StoredLife(coll) == (CHOOSE d \in FindId(coll, TheMachine) : TRUE).Life
StoredRevno(coll) == (CHOOSE d \in FindId(coll, TheMachine) : TRUE).TxnRevno

NoCall == [h |-> 0, op |-> "none", arg |-> <<>>, err |-> NilErr,
           pre |-> {}, predoc |-> InitialDoc, ops |-> <<>>]

(***************************************************************************)
(* remoterelations.State (src/unnamed/part_000): application names, the    *)
(* answers of the facade, the errors.                                      *)
(***************************************************************************)

\* the characters names are made of: a letter, a digit, the hyphen, and one
\* character outside [a-z0-9-]
Letters == {"a"}
Digits == {"0"}
NameChars == Letters \cup Digits \cup {"-", "A"}
Names == UNION {[1..n -> NameChars] : n \in 0..MaxNameLen}

\* names.IsValidApplication: the whole name matches
\*   [a-z][a-z0-9]*(-[a-z0-9]*[a-z][a-z0-9]*)*
\* read from position i in state q of the expression's automaton: "start",
\* "first" (in the first segment), "dash" (after a hyphen, no letter yet),
\* "seg" (in a later segment, a letter seen).
RECURSIVE Matches(_, _, _)
Matches(q, service, i) ==
    IF i > Len(service) THEN q \in {"first", "seg"}
    ELSE LET c == service[i]
             alnum == c \in Letters \cup Digits
         IN  CASE q = "start" -> c \in Letters /\ Matches("first", service, i + 1)
               [] q = "first" -> \/ alnum /\ Matches("first", service, i + 1)
                                 \/ c = "-" /\ Matches("dash", service, i + 1)
               [] q = "dash"  -> \/ c \in Digits /\ Matches("dash", service, i + 1)
                                 \/ c \in Letters /\ Matches("seg", service, i + 1)
               [] q = "seg"   -> \/ alnum /\ Matches("seg", service, i + 1)
                                 \/ c = "-" /\ Matches("dash", service, i + 1)
IsValidApplication(service) == Matches("start", service, 1)

\* names.NewApplicationTag(service).String()
ApplicationTag(service) == <<"application">> \o service

\* errors.NotValidf(format, args)
NotValidf(what) == [ctx |-> <<what>>, cause |-> "not valid"]

\* what the server may answer to the facade call: the call's error and
\* params.ApplicationRelationsWatchResults
NoResultError == "nil"
WatchResultOk == [Error |-> NoResultError, ApplicationRelationsWatcherId |-> "1"]
WatchResultDenied == [Error |-> "permission denied", ApplicationRelationsWatcherId |-> ""]
FacadeAnswers ==
    { [err |-> Errorf("connection is shut down"), Results |-> <<>>],
      [err |-> NilErr, Results |-> <<>>],
      [err |-> NilErr, Results |-> <<WatchResultOk, WatchResultOk>>],
      [err |-> NilErr, Results |-> <<WatchResultDenied>>],
      [err |-> NilErr, Results |-> <<WatchResultOk>>] }

NoWatcher == [id |-> ""]
NoWatchCall == [called |-> FALSE, service |-> <<>>, w |-> NoWatcher, err |-> NilErr]

\* the goroutines receiving from a watcher's channel, those calling Stop on
\* it, and the ids whose changes it reports
Receivers == {1, 2}
Stoppers == {1, 2}
ChangedIds == {"relation-0", "relation-1"}

\* the relations a remote application can be in
RelationIds == {"relation-0", "relation-1", "relation-2"}
\* a batch of the top-level watcher: the changed relations, split into those
\* live and those gone at the time of delivery
NoBatch == [added |-> {}, removed |-> {}]

\* cmd: the commands Main is given, the words of a command line, the errors
\* the steps of a command return
Commands == { [Name |-> "juju", Super |-> TRUE, Flags |-> {"--debug"}],
              [Name |-> "jujud", Super |-> FALSE, Flags |-> {"--debug"}] }
NoCommand == [Name |-> "", Super |-> FALSE, Flags |-> {}]
FlagWords == {"--debug", "--help", "--bogus"}
Words == FlagWords \cup {"status"}
ArgLists == UNION {[1..n -> Words] : n \in 0..MaxArgs}
ErrHelp == Errorf("flag: help requested")
ErrSilent == Errorf("cmd: error out silently")
InitErrs == {NilErr, ErrHelp, Errorf("unrecognized args")}
RunErrs == {NilErr, ErrSilent, ErrHelp, Errorf("no environment")}
NewFlagSet == [Defined |-> {}, Args |-> <<>>]
NoStepErrs == [ParseArgs |-> NilErr, Init |-> NilErr, Run |-> NilErr]

\* the elements of a sequence
Range(s) == {s[k] : k \in 1..Len(s)}

Init ==
    /\ wpc = "idle"
    /\ wid = 0
    /\ wi = 0
    /\ wch = 0
    /\ wtimeout = 0
    /\ wtimer = 0
    /\ wstart = 0
    /\ wend = 0
    /\ wnotes = <<>>
    /\ wnoteAt = <<>>
    /\ wfired = "none"
    /\ wres = [status |-> "none", err |-> NilErr]
    /\ watches = {}
    /\ pwDead = FALSE
    /\ pwErr = "nil"
    /\ pwDeadAt = 0
    /\ now = 0
    /\ calls = 0
    /\ machines = {InitialDoc}
    /\ m = [h \in Handles |-> newMachine(InitialDoc)]
    /\ last = NoCall
    /\ lifeLog = <<InitialDoc.Life>>
    /\ epc = [h \in Handles |-> 0]
    /\ eres = [h \in Handles |-> <<>>]
    /\ rpc = "start"
    /\ rx = ""
    /\ facadeCalls = <<>>
    /\ appWatchers = {}
    /\ wra = NoWatchCall
    /\ units = {}
    /\ upc = "idle"
    /\ pudocs = <<>>
    /\ ui = 0
    /\ ures = <<>>
    /\ truths = {}
    /\ loop = "running"
    /\ dying = FALSE
    /\ batch = {}
    /\ receivers = [r \in Receivers |-> "idle"]
    /\ stoppers = [c \in Stoppers |-> "idle"]
    /\ stopErrs = [c \in Stoppers |-> NilErr]
    /\ stopDone = FALSE
    /\ lateBatch = FALSE
    /\ membership = {}
    /\ changed = {}
    /\ inbox = <<>>
    /\ nested = {}
    /\ released = {}
    /\ delivered = {}
    /\ processed = NoBatch
    /\ before = {}
    /\ mainPc = "start"
    /\ cmd = NoCommand
    /\ args = <<>>
    /\ flagSet = NewFlagSet
    /\ trace = <<>>
    /\ stepErrs = NoStepErrs
    /\ stderr = <<>>
    /\ rc = <<>>

(***************************************************************************)
(* Machine.WaitAgentAlive, one action per step the call can block at.      *)
(***************************************************************************)
\* The call up to its first select: ch is made, the subscription is
\* registered, the loop starts with i = 0 and time.After(timeout) is evaluated.
WaitAgentAlive(id, timeout) ==
    /\ wpc \in {"idle", "done"}
    /\ calls < MaxCalls
    /\ calls' = calls + 1
    /\ wid' = id
    /\ wch' = calls + 1
    /\ watches' = Watch(watches, globalKey(id), calls + 1)
    /\ wi' = 0
    /\ wtimeout' = timeout
    /\ wtimer' = now + timeout
    /\ wstart' = now
    /\ wend' = now
    /\ wnotes' = <<>>
    /\ wnoteAt' = <<>>
    /\ wfired' = "none"
    /\ wres' = [status |-> "running", err |-> NilErr]
    /\ wpc' = "select"
    /\ UNCHANGED <<pwDead, pwErr, pwDeadAt, now>>

\* a return that skips the deferred Unwatch
ReturnLeaks(err, case) ==
    /\ wres' = [status |-> "returned", err |-> ErrorContextf(err, WaitContext(wid))]
    /\ wfired' = case
    /\ wend' = now
    /\ wpc' = "done"
    /\ UNCHANGED watches
\* return err from inside the select: the deferred Unwatch and ErrorContextf run
Return(err, case) ==
    /\ wres' = [status |-> "returned", err |-> ErrorContextf(err, WaitContext(wid))]
    /\ wfired' = case
    /\ wend' = now
    /\ wpc' = "done"
    /\ watches' = Unwatch(watches, globalKey(wid), wch)

\* the panic after the loop: the deferred calls run while the panic unwinds
\* (err is nil at that point, so ErrorContextf leaves it alone)
Panic ==
    /\ wres' = [status |-> "panicked", err |-> ErrorContextf(NilErr, WaitContext(wid))]
    /\ wfired' = "change"
    /\ wend' = now
    /\ wpc' = "done"
    /\ watches' = Unwatch(watches, globalKey(wid), wch)

\* case change := <-ch.  The watcher hands over a change (ch is unbuffered, so
\* send and receive are one step); a dead watcher sends nothing.
SelectChange(alive) ==
    /\ wpc = "select"
    /\ ~pwDead
    /\ <<globalKey(wid), wch>> \in watches
    /\ wnotes' = Append(wnotes, alive)
    /\ wnoteAt' = Append(wnoteAt, now)
    /\ IF ChangeAlive(alive)
         THEN /\ Return(NilErr, "change")
              /\ UNCHANGED <<wi, wtimer>>
         ELSE IF wi + 1 < LoopLimit
                THEN \* next iteration: a new time.After(timeout) is evaluated
                     /\ wi' = wi + 1
                     /\ wtimer' = now + wtimeout
                     /\ UNCHANGED <<wpc, wres, wfired, wend, watches>>
                ELSE /\ wi' = wi + 1
                     /\ Panic
                     /\ UNCHANGED wtimer
    /\ UNCHANGED <<wid, wch, wtimeout, wstart, pwDead, pwErr, pwDeadAt, now, calls>>

\* case <-time.After(timeout)
SelectTimeout ==
    /\ wpc = "select"
    /\ now >= wtimer
    /\ Return(Errorf(ErrTimeout), "timer")
    /\ UNCHANGED <<wid, wi, wch, wtimeout, wtimer, wstart, wnotes, wnoteAt,
                   pwDead, pwErr, pwDeadAt, now, calls>>

\* the watcher-died case answering with the timeout error
SelectDeadAsTimeout ==
    /\ wpc = "select"
    /\ pwDead
    /\ Return(Errorf(ErrTimeout), "dead")
    /\ UNCHANGED <<wid, wi, wch, wtimeout, wtimer, wstart, wnotes, wnoteAt,
                   pwDead, pwErr, pwDeadAt, now, calls>>
\* case <-m.st.pwatcher.Dead()
SelectDead ==
    /\ wpc = "select"
    /\ pwDead
    /\ Return(WatcherErr, "dead")
    /\ UNCHANGED <<wid, wi, wch, wtimeout, wtimer, wstart, wnotes, wnoteAt,
                   pwDead, pwErr, pwDeadAt, now, calls>>

\* The presence watcher dies with error e: Dead() is closed from now on.
WatcherDies(e) ==
    /\ ~pwDead
    /\ pwDead' = TRUE
    /\ pwErr' = e
    /\ pwDeadAt' = now
    /\ UNCHANGED <<wpc, wid, wi, wch, wtimeout, wtimer, wstart, wend, wnotes, wnoteAt,
                   wfired, wres, watches, now, calls>>

\* Time passes, past MaxTime only while a call is blocked.  A select with a
\* ready case (the timer's channel, the closed Dead channel) proceeds before
\* the clock moves on.
Tick ==
    /\ now < MaxTime \/ wpc = "select"
    /\ ~(wpc = "select" /\ (pwDead \/ now >= wtimer))
    /\ now' = now + 1
    /\ UNCHANGED <<wpc, wid, wi, wch, wtimeout, wtimer, wstart, wend, wnotes, wnoteAt,
                   wfired, wres, watches, pwDead, pwErr, pwDeadAt, calls>>

NextWait ==
    \/ \E id \in MachineIds, t \in Timeouts :
          WaitAgentAlive(id, t) /\ UNCHANGED waitFrame
    \/ \E a \in BOOLEAN : SelectChange(a) /\ UNCHANGED waitFrame
    \/ SelectTimeout /\ UNCHANGED waitFrame
    \/ SelectDead /\ UNCHANGED waitFrame
    \/ \E e \in WatcherErrs : WatcherDies(e) /\ UNCHANGED waitFrame
    \/ Tick /\ UNCHANGED waitFrame

SpecWait == Init /\ [][NextWait]_vars

\* time passes, and a select with a ready case is not held back for ever
SpecWaitFair ==
    /\ Init /\ [][NextWait]_vars
    /\ WF_vars(Tick /\ UNCHANGED waitFrame)
    /\ WF_vars(SelectTimeout /\ UNCHANGED waitFrame)
    /\ WF_vars(SelectDead /\ UNCHANGED waitFrame)

(***************************************************************************)
(* The operations of a Machine handle h.  A call is one step: its          *)
(* transaction is atomic in the store and the rest of it touches only the  *)
(* handle, which has a single owner.                                       *)
(***************************************************************************)
Called(h, op, arg, err) ==
    [h |-> h, op |-> op, arg |-> arg, err |-> err,
     pre |-> machines, predoc |-> m[h].doc, ops |-> <<>>]

\* the record of a call that handed ops to the transaction runner
Submitted(call, ops) == [call EXCEPT !.ops = ops]

\* the Life values committed so far, after a lifecycle transaction on coll
LifeLogged(coll) ==
    IF coll # machines THEN Append(lifeLog, StoredLife(coll)) ELSE lifeLog

\* EnsureDying writing Dying under the assertion notDead, not isAlive
EnsureDyingAssertsNotDead(h) ==
    LET r == Run(machines, Op(m[h].doc.Id, "notDead", "life", Dying))
    IN  /\ machines' = r.coll
        /\ lifeLog' = LifeLogged(r.coll)
        /\ m' = IF r.err # NilErr THEN m ELSE [m EXCEPT ![h].doc.Life = Dying]
        /\ last' = Submitted(Called(h, "EnsureDying", <<>>, r.err), r.ops)
\* Machine.EnsureDying
EnsureDying(h) ==
    LET r == ensureDying(machines, m[h].doc.Id)
    IN  /\ machines' = r.coll
        /\ lifeLog' = LifeLogged(r.coll)
        /\ m' = IF r.err # NilErr THEN m ELSE [m EXCEPT ![h].doc.Life = Dying]
        /\ last' = Submitted(Called(h, "EnsureDying", <<>>, r.err), r.ops)

\* EnsureDead with ensureDying called in its place
EnsureDeadCallsEnsureDying(h) ==
    LET r == ensureDying(machines, m[h].doc.Id)
    IN  /\ machines' = r.coll
        /\ lifeLog' = LifeLogged(r.coll)
        /\ m' = IF r.err # NilErr THEN m ELSE [m EXCEPT ![h].doc.Life = Dead]
        /\ last' = Submitted(Called(h, "EnsureDead", <<>>, r.err), r.ops)
\* Machine.EnsureDead
EnsureDead(h) ==
    LET r == ensureDead(machines, m[h].doc.Id)
    IN  /\ machines' = r.coll
        /\ lifeLog' = LifeLogged(r.coll)
        /\ m' = IF r.err # NilErr THEN m ELSE [m EXCEPT ![h].doc.Life = Dead]
        /\ last' = Submitted(Called(h, "EnsureDead", <<>>, r.err), r.ops)

ErrStore == "store: i/o error"
RefreshContext(id) == <<"cannot refresh machine", id>>

\* machineDoc{}
ZeroDoc ==
    [Id |-> 0, InstanceId |-> "", Principals |-> <<>>, Life |-> Alive,
     Tools |-> <<>>, TxnRevno |-> 0, Workers |-> <<>>]

\* Refresh decoding into m.doc itself, which is zeroed when nothing is found
RefreshDecodesInPlace(h) ==
    LET found == FindId(machines, m[h].doc.Id)
    IN  /\ IF found = {}
             THEN /\ m' = [m EXCEPT ![h].doc = ZeroDoc]
                  /\ last' = Called(h, "Refresh", <<>>,
                                    notFound(<<"machine", m[h].doc.Id>>))
             ELSE /\ m' = [m EXCEPT ![h].doc = CHOOSE d \in found : TRUE]
                  /\ last' = Called(h, "Refresh", <<>>, NilErr)
        /\ UNCHANGED <<machines, lifeLog>>
\* Refresh answering nil without replacing the snapshot
RefreshKeepsSnapshot(h) ==
    LET found == FindId(machines, m[h].doc.Id)
    IN  /\ m' = m
        /\ last' = Called(h, "Refresh", <<>>,
                      IF found = {} THEN notFound(<<"machine", m[h].doc.Id>>)
                      ELSE NilErr)
        /\ UNCHANGED <<machines, lifeLog>>
\* Machine.Refresh: the snapshot is replaced by the stored document, or left
\* alone when there is none
Refresh(h) ==
    LET found == FindId(machines, m[h].doc.Id)
    IN  /\ IF found = {}
             THEN /\ m' = m
                  /\ last' = Called(h, "Refresh", <<>>,
                                    notFound(<<"machine", m[h].doc.Id>>))
             ELSE /\ m' = [m EXCEPT ![h].doc = CHOOSE d \in found : TRUE]
                  /\ last' = Called(h, "Refresh", <<>>, NilErr)
        /\ UNCHANGED <<machines, lifeLog>>

\* Machine.Refresh when the query fails with an error other than ErrNotFound
RefreshStoreError(h) ==
    /\ m' = m
    /\ last' = Called(h, "Refresh", <<>>,
                  ErrorContextf(Errorf(ErrStore), RefreshContext(m[h].doc.Id)))
    /\ UNCHANGED <<machines, lifeLog>>

\* the transactions of the mutators are explored while the stored txn-revno
\* is below MaxRevno
WithinRevno(r) == r.err = NilErr => StoredRevno(machines) < MaxRevno

SetInstanceIdContext(id) == <<"cannot set instance id of machine", id>>

\* SetInstanceId assigning the snapshot before the transaction has run
SetInstanceIdSpeculative(h, id) ==
    LET r == Run(machines, Op(m[h].doc.Id, "notDead", "instanceid", id))
    IN  /\ WithinRevno(r)
        /\ machines' = r.coll
        /\ m' = [m EXCEPT ![h].doc.InstanceId = id]
        /\ last' = Submitted(Called(h, "SetInstanceId", <<id>>,
                               ErrorContextf(onAbort(r.err, errNotAlive),
                                             SetInstanceIdContext(m[h].doc.Id))), r.ops)
        /\ UNCHANGED lifeLog
\* SetInstanceId asserting isAlive, not notDead
SetInstanceIdAssertsAlive(h, id) ==
    LET r == Run(machines, Op(m[h].doc.Id, "isAlive", "instanceid", id))
    IN  /\ WithinRevno(r)
        /\ machines' = r.coll
        /\ m' = IF r.err # NilErr THEN m ELSE [m EXCEPT ![h].doc.InstanceId = id]
        /\ last' = Submitted(Called(h, "SetInstanceId", <<id>>,
                      ErrorContextf(onAbort(r.err, errNotAlive),
                                    SetInstanceIdContext(m[h].doc.Id))), r.ops)
        /\ UNCHANGED lifeLog
\* Machine.SetInstanceId
SetInstanceId(h, id) ==
    LET r == Run(machines, Op(m[h].doc.Id, "notDead", "instanceid", id))
    IN  /\ WithinRevno(r)
        /\ machines' = r.coll
        /\ IF r.err # NilErr
             THEN /\ m' = m
                  /\ last' = Submitted(Called(h, "SetInstanceId", <<id>>,
                                         ErrorContextf(onAbort(r.err, errNotAlive),
                                                       SetInstanceIdContext(m[h].doc.Id))), r.ops)
             ELSE /\ m' = [m EXCEPT ![h].doc.InstanceId = id]
                  /\ last' = Submitted(Called(h, "SetInstanceId", <<id>>, NilErr), r.ops)
        /\ UNCHANGED lifeLog

SetAgentToolsContext(id) == <<"cannot set agent tools for machine", id>>

\* SetAgentTools checking the tools after the transaction has run
SetAgentToolsChecksLate(h, t) ==
    LET r == Run(machines, Op(m[h].doc.Id, "notDead", "tools", t))
        bad == t.Series = "" \/ t.Arch = ""
    IN  /\ WithinRevno(r)
        /\ machines' = r.coll
        /\ m' = IF r.err # NilErr \/ bad THEN m ELSE [m EXCEPT ![h].doc.Tools = <<t>>]
        /\ last' = Submitted(Called(h, "SetAgentTools", <<t>>,
                      IF bad THEN ErrorContextf(Errorf("empty series or arch"),
                                                SetAgentToolsContext(m[h].doc.Id))
                      ELSE ErrorContextf(onAbort(r.err, errNotAlive),
                                         SetAgentToolsContext(m[h].doc.Id))), r.ops)
        /\ UNCHANGED lifeLog
\* Machine.SetAgentTools
SetAgentTools(h, t) ==
    IF t.Series = "" \/ t.Arch = ""
      THEN /\ last' = Called(h, "SetAgentTools", <<t>>,
                        ErrorContextf(Errorf("empty series or arch"),
                                      SetAgentToolsContext(m[h].doc.Id)))
           /\ UNCHANGED <<machines, m, lifeLog>>
      ELSE LET r == Run(machines, Op(m[h].doc.Id, "notDead", "tools", t))
           IN  /\ WithinRevno(r)
               /\ machines' = r.coll
               /\ IF r.err # NilErr
                    THEN /\ m' = m
                         /\ last' = Submitted(Called(h, "SetAgentTools", <<t>>,
                                                ErrorContextf(onAbort(r.err, errNotAlive),
                                                              SetAgentToolsContext(m[h].doc.Id))), r.ops)
                    ELSE /\ m' = [m EXCEPT ![h].doc.Tools = <<t>>]
                         /\ last' = Submitted(Called(h, "SetAgentTools", <<t>>, NilErr), r.ops)
               /\ UNCHANGED lifeLog

\* Another writer removes the machine's document once it is Dead.
RemoveMachine ==
    /\ FindId(machines, TheMachine) # {}
    /\ StoredLife(machines) = Dead
    /\ machines' = machines \ FindId(machines, TheMachine)
    /\ last' = [NoCall EXCEPT !.op = "RemoveMachine", !.pre = machines]
    /\ UNCHANGED <<m, lifeLog>>

Next ==
    \/ \E h \in Handles : EnsureDying(h) /\ UNCHANGED storeFrame
    \/ \E h \in Handles : EnsureDead(h) /\ UNCHANGED storeFrame
    \/ \E h \in Handles : Refresh(h) /\ UNCHANGED storeFrame
    \/ \E h \in Handles : RefreshStoreError(h) /\ UNCHANGED storeFrame
    \/ \E h \in Handles, id \in InstanceIds :
          SetInstanceId(h, id) /\ UNCHANGED storeFrame
    \/ \E h \in Handles, t \in ToolsInputs :
          SetAgentTools(h, t) /\ UNCHANGED storeFrame
    \/ RemoveMachine /\ UNCHANGED storeFrame

Spec == Init /\ [][Next]_vars

(***************************************************************************)
(* Two callers, each with its own handle, run EnsureDying and then         *)
(* EnsureDead, while another writer may set the instance id.               *)
(***************************************************************************)
Returned(c, err) == eres' = [eres EXCEPT ![c] = Append(@, err)]

CallerEnsureDying(c) ==
    /\ epc[c] = 0
    /\ EnsureDying(c)
    /\ epc' = [epc EXCEPT ![c] = 1]
    /\ Returned(c, last'.err)

CallerEnsureDead(c) ==
    /\ epc[c] = 1
    /\ EnsureDead(c)
    /\ epc' = [epc EXCEPT ![c] = 2]
    /\ Returned(c, last'.err)

\* the SetInstanceId transaction of a writer that is not one of the callers
WriterSetInstanceId(id) ==
    LET r == Run(machines, Op(TheMachine, "notDead", "instanceid", id))
    IN  /\ WithinRevno(r)
        /\ machines' = r.coll
        /\ last' = [NoCall EXCEPT !.op = "WriterSetInstanceId", !.pre = machines,
                                  !.err = onAbort(r.err, errNotAlive)]
        /\ UNCHANGED <<m, lifeLog, epc, eres>>

\* the SetAgentTools transaction of such a writer
WriterSetAgentTools(t) ==
    LET r == Run(machines, Op(TheMachine, "notDead", "tools", t))
    IN  /\ t.Series # "" /\ t.Arch # ""
        /\ WithinRevno(r)
        /\ machines' = r.coll
        /\ last' = [NoCall EXCEPT !.op = "WriterSetAgentTools", !.pre = machines,
                                  !.err = onAbort(r.err, errNotAlive)]
        /\ UNCHANGED <<m, lifeLog, epc, eres>>

NextEnsure ==
    \/ \E c \in Handles : CallerEnsureDying(c) /\ UNCHANGED ensureFrame
    \/ \E c \in Handles : CallerEnsureDead(c) /\ UNCHANGED ensureFrame
    \/ \E id \in InstanceIds : WriterSetInstanceId(id) /\ UNCHANGED ensureFrame
    \/ \E t \in ToolsInputs : WriterSetAgentTools(t) /\ UNCHANGED ensureFrame

SpecEnsure == Init /\ [][NextEnsure]_vars

(***************************************************************************)
(* The round trip: handle 1 calls SetInstanceId(x) and then Refresh, while *)
(* handle 2 and other writers go on; no one else sets the instance id once *)
(* the call on handle 1 has returned.                                      *)
(***************************************************************************)
\* Machine.InstanceId
InstanceId(h) ==
    IF m[h].doc.InstanceId = ""
      THEN [id |-> "", err |-> notFound(<<"instance id for machine", m[h].doc.Id>>)]
      ELSE [id |-> m[h].doc.InstanceId, err |-> NilErr]

RtSetInstanceId(x) ==
    /\ rpc = "start"
    /\ SetInstanceId(1, x)
    /\ rx' = x
    /\ rpc' = IF last'.err = NilErr THEN "set" ELSE "failed"

RtRefresh ==
    /\ rpc = "set"
    /\ Refresh(1)
    /\ rpc' = IF last'.err = NilErr THEN "refreshed" ELSE "failed"
    /\ UNCHANGED rx

\* a writer other than handle 1 sets the instance id before the round trip
RtEarlierWriter(id) ==
    /\ rpc = "start"
    /\ WriterSetInstanceId(id)
    /\ UNCHANGED rtVars

NextRoundTrip ==
    \/ \E x \in RoundTripIds : RtSetInstanceId(x) /\ UNCHANGED roundTripFrame
    \/ RtRefresh /\ UNCHANGED roundTripFrame
    \/ \E id \in InstanceIds : RtEarlierWriter(id) /\ UNCHANGED <<waitVars, extVars>>
    \/ EnsureDying(2) /\ UNCHANGED <<roundTripFrame, rtVars>>
    \/ EnsureDead(2) /\ UNCHANGED <<roundTripFrame, rtVars>>
    \/ Refresh(2) /\ UNCHANGED <<roundTripFrame, rtVars>>
    \/ \E t \in ToolsInputs : SetAgentTools(2, t) /\ UNCHANGED <<roundTripFrame, rtVars>>
    \/ RemoveMachine /\ UNCHANGED <<roundTripFrame, rtVars>>

SpecRoundTrip == Init /\ [][NextRoundTrip]_vars

(***************************************************************************)
(* remoterelations.State.WatchRemoteApplication: one call, answered by the *)
(* server with any of FacadeAnswers, next to SetAgentTools calls on handle *)
(* 1 while handle 2 and another writer take the machine to its end.        *)
(***************************************************************************)
FacadeCall(method, params) == Append(facadeCalls, <<method, params>>)

\* apiwatcher.NewApplicationRelationsWatcher(caller, result)
NewApplicationRelationsWatcher(result) == [id |-> result.ApplicationRelationsWatcherId]

WatchReturned(service, w, err) ==
    [called |-> TRUE, service |-> service, w |-> w, err |-> err]

\* WatchRemoteApplication from the facade call on, the name being valid
CallWatchRemoteApplication(service, answer) ==
    /\ ~wra.called
    /\ facadeCalls' = FacadeCall("WatchRemoteApplication", <<ApplicationTag(service)>>)
    /\ IF answer.err # NilErr
         THEN wra' = WatchReturned(service, NoWatcher, answer.err) /\ UNCHANGED appWatchers
         ELSE IF Len(answer.Results) # 1
         THEN /\ wra' = WatchReturned(service, NoWatcher,
                           Errorf(<<"expected 1 result, got", Len(answer.Results)>>))
              /\ UNCHANGED appWatchers
         ELSE IF answer.Results[1].Error # NoResultError
         THEN /\ wra' = WatchReturned(service, NoWatcher, Errorf(answer.Results[1].Error))
              /\ UNCHANGED appWatchers
         ELSE LET w == NewApplicationRelationsWatcher(answer.Results[1])
              IN  /\ appWatchers' = appWatchers \cup {w}
                  /\ wra' = WatchReturned(service, w, NilErr)
\* State.WatchRemoteApplication(service), the server answering with answer
WatchRemoteApplication(service, answer) ==
    /\ ~wra.called
    /\ IF ~IsValidApplication(service)
         THEN /\ wra' = WatchReturned(service, NoWatcher,
                           NotValidf(<<"application name", service>>))
              /\ UNCHANGED <<facadeCalls, appWatchers>>
         ELSE CallWatchRemoteApplication(service, answer)

NextInput ==
    \/ \E t \in ToolsInputs : SetAgentTools(1, t) /\ UNCHANGED storeFrame
    \/ EnsureDying(2) /\ UNCHANGED storeFrame
    \/ EnsureDead(2) /\ UNCHANGED storeFrame
    \/ RemoveMachine /\ UNCHANGED storeFrame
    \/ \E service \in Names, answer \in FacadeAnswers :
          WatchRemoteApplication(service, answer) /\ UNCHANGED remoteFrame

SpecInput == Init /\ [][NextInput]_vars

(***************************************************************************)
(* Machine.Units on the handle of TheMachine, one action per query, while  *)
(* other writers add, assign, unassign and remove units.                   *)
(***************************************************************************)
PrincipalNames == <<"mysql/0", "wordpress/0">>
SubordinateNames == <<"logging/0">>
\* the order in which a query returns the documents it finds
UnitNames == PrincipalNames \o SubordinateNames

\* unitDoc: MachineId is <<>> (not assigned) or <<id>>; Principal is "" for
\* a principal unit and the principal's name for a subordinate
unitDoc(name, machineId, principal) ==
    [Name |-> name, MachineId |-> machineId, Principal |-> principal]

\* m.st.units.Find(...).All(&docs) for the documents of coll in found
All(coll, found) ==
    LET names == SelectSeq(UnitNames, LAMBDA n : \E d \in found : d.Name = n)
    IN  [k \in 1..Len(names) |-> CHOOSE d \in found : d.Name = names[k]]
FindByMachineId(coll, id) == All(coll, {d \in coll : d.MachineId = <<id>>})
FindByPrincipal(coll, name) == All(coll, {d \in coll : d.Principal = name})

\* what the store holds at one instant: the principal units assigned to the
\* machine and the subordinates of exactly those
SnapshotUnits(coll, id) ==
    LET ps == {d \in coll : d.MachineId = <<id>>}
    IN  {d.Name : d \in ps} \cup
        {d.Name : d \in {v \in coll : \E q \in ps : v.Principal = q.Name}}

\* Units: the query by machineid
UnitsFindPrincipals ==
    /\ upc = "idle"
    /\ pudocs' = FindByMachineId(units, m[1].doc.Id)
    /\ ui' = 1
    /\ ures' = <<>>
    /\ truths' = {SnapshotUnits(units, m[1].doc.Id)}
    /\ upc' = "loop"
    /\ UNCHANGED units

\* Units: one iteration of the range loop, with its query by principal
UnitsFindSubordinates ==
    /\ upc = "loop"
    /\ ui <= Len(pudocs)
    /\ LET docs == FindByPrincipal(units, pudocs[ui].Name)
       IN  ures' = ures \o <<pudocs[ui].Name>> \o [k \in 1..Len(docs) |-> docs[k].Name]
    /\ ui' = ui + 1
    /\ UNCHANGED <<units, upc, pudocs, truths>>

\* Units: return units, nil
UnitsReturn ==
    /\ upc = "loop"
    /\ ui > Len(pudocs)
    /\ upc' = "returned"
    /\ UNCHANGED <<units, pudocs, ui, ures, truths>>

\* a write of another client, which leaves coll in the units collection
UnitsWritten(coll) ==
    /\ units' = coll
    /\ truths' = IF upc = "loop"
                   THEN truths \cup {SnapshotUnits(coll, m[1].doc.Id)}
                   ELSE truths
    /\ UNCHANGED <<upc, pudocs, ui, ures>>

Stored(name) == \E d \in units : d.Name = name

AddPrincipalUnit(name) ==
    /\ ~Stored(name)
    /\ UnitsWritten(units \cup {unitDoc(name, <<>>, "")})
AssignToMachine(name, id) ==
    /\ \E d \in units : d.Name = name /\ d.MachineId = <<>>
    /\ UnitsWritten({IF d.Name = name THEN [d EXCEPT !.MachineId = <<id>>] ELSE d : d \in units})
UnassignFromMachine(name) ==
    /\ \E d \in units : d.Name = name /\ d.MachineId # <<>>
    /\ UnitsWritten({IF d.Name = name THEN [d EXCEPT !.MachineId = <<>>] ELSE d : d \in units})
AddSubordinateUnit(name, principal) ==
    /\ ~Stored(name)
    /\ Stored(principal)
    /\ UnitsWritten(units \cup {unitDoc(name, <<>>, principal)})
RemoveUnit(name) ==
    /\ Stored(name)
    /\ ~\E d \in units : d.Principal = name
    /\ UnitsWritten({d \in units : d.Name # name})

NextUnits ==
    \/ UnitsFindPrincipals /\ UNCHANGED unitFrame
    \/ UnitsFindSubordinates /\ UNCHANGED unitFrame
    \/ UnitsReturn /\ UNCHANGED unitFrame
    \/ \E n \in Range(PrincipalNames) : AddPrincipalUnit(n) /\ UNCHANGED unitFrame
    \/ \E n \in Range(PrincipalNames), id \in MachineIds :
          AssignToMachine(n, id) /\ UNCHANGED unitFrame
    \/ \E n \in Range(PrincipalNames) : UnassignFromMachine(n) /\ UNCHANGED unitFrame
    \/ \E n \in Range(SubordinateNames), q \in Range(PrincipalNames) :
          AddSubordinateUnit(n, q) /\ UNCHANGED unitFrame
    \/ \E n \in Range(UnitNames) : RemoveUnit(n) /\ UNCHANGED unitFrame

SpecUnits == Init /\ [][NextUnits]_vars

(***************************************************************************)
(* A change watcher: a loop that collects changes into a batch and hands   *)
(* the batch to a receiver on an unbuffered channel, until it is stopped.  *)
(* Stop tells the loop to stop and waits for it to exit; the loop closes   *)
(* the channel as it exits.                                                *)
(***************************************************************************)
\* the store reports a change of id to the loop; changes of one id collapse
Changed(id) ==
    /\ loop = "running"
    /\ batch' = batch \cup {id}
    /\ UNCHANGED <<loop, dying, receivers, stoppers, stopErrs, stopDone, lateBatch>>

\* receiver r starts a receive from the watcher's channel
Receive(r) ==
    /\ receivers[r] # "blocked"
    /\ receivers' = [receivers EXCEPT ![r] = "blocked"]
    /\ UNCHANGED <<loop, dying, batch, stoppers, stopErrs, stopDone, lateBatch>>

\* the loop's send of the batch meets the receive of r
Deliver(r) ==
    /\ loop = "running"
    /\ batch # {}
    /\ receivers[r] = "blocked"
    /\ receivers' = [receivers EXCEPT ![r] = "batch"]
    /\ batch' = {}
    /\ lateBatch' = (lateBatch \/ stopDone)
    /\ UNCHANGED <<loop, dying, stoppers, stopErrs, stopDone>>

\* Stop called by c: tell the loop to stop, then wait for it
Stop(c) ==
    /\ stoppers[c] = "idle"
    /\ dying' = TRUE
    /\ stoppers' = [stoppers EXCEPT ![c] = "waiting"]
    /\ UNCHANGED <<loop, batch, receivers, stopErrs, stopDone, lateBatch>>

\* the loop exits without closing the channel
LoopExitsChannelOpen ==
    /\ loop = "running"
    /\ dying
    /\ loop' = "left"
    /\ UNCHANGED <<dying, batch, receivers, stoppers, stopErrs, stopDone, lateBatch>>
\* the loop sees it was told to stop: it exits and closes the channel
LoopExits ==
    /\ loop = "running"
    /\ dying
    /\ loop' = "exited"
    /\ UNCHANGED <<dying, batch, receivers, stoppers, stopErrs, stopDone, lateBatch>>

\* Stop returns to c once the loop is gone
StopReturns(c) ==
    /\ stoppers[c] = "waiting"
    /\ loop # "running"
    /\ stoppers' = [stoppers EXCEPT ![c] = "returned"]
    /\ stopErrs' = [stopErrs EXCEPT ![c] = NilErr]
    /\ stopDone' = TRUE
    /\ UNCHANGED <<loop, dying, batch, receivers, lateBatch>>

\* a receive on the closed channel ends with the stopped indication
Released(r) ==
    /\ loop = "exited"
    /\ receivers[r] = "blocked"
    /\ receivers' = [receivers EXCEPT ![r] = "stopped"]
    /\ UNCHANGED <<loop, dying, batch, stoppers, stopErrs, stopDone, lateBatch>>

\* c may call Stop again
StopAgain(c) ==
    /\ stoppers[c] = "returned"
    /\ stoppers' = [stoppers EXCEPT ![c] = "idle"]
    /\ UNCHANGED <<loop, dying, batch, receivers, stopErrs, stopDone, lateBatch>>

NextWatcher ==
    \/ \E id \in ChangedIds : Changed(id) /\ UNCHANGED watcherFrame
    \/ \E r \in Receivers : Receive(r) /\ UNCHANGED watcherFrame
    \/ \E r \in Receivers : Deliver(r) /\ UNCHANGED watcherFrame
    \/ \E c \in Stoppers : Stop(c) /\ UNCHANGED watcherFrame
    \/ LoopExits /\ UNCHANGED watcherFrame
    \/ \E c \in Stoppers : StopReturns(c) /\ UNCHANGED watcherFrame
    \/ \E r \in Receivers : Released(r) /\ UNCHANGED watcherFrame
    \/ \E c \in Stoppers : StopAgain(c) /\ UNCHANGED watcherFrame

\* the loop and the blocked receivers are goroutines that run when they can
SpecWatcher ==
    /\ Init /\ [][NextWatcher]_vars
    /\ WF_vars(LoopExits /\ UNCHANGED watcherFrame)
    /\ \A r \in Receivers : WF_vars(Released(r) /\ UNCHANGED watcherFrame)
    /\ \A c \in Stoppers : WF_vars(StopReturns(c) /\ UNCHANGED watcherFrame)

(***************************************************************************)
(* The relation-set watcher of a remote application: a top-level watcher   *)
(* over the application's relation membership, and one nested watcher over *)
(* unit settings per live relation, started and stopped as the batches of  *)
(* the top-level watcher are processed.                                    *)
(***************************************************************************)
\* a relation joins the application's membership
AddRelation(id) ==
    /\ id \notin membership
    /\ membership' = membership \cup {id}
    /\ changed' = changed \cup {id}
    /\ UNCHANGED <<inbox, nested, released, delivered, processed, before>>

\* a relation departs
RemoveRelation(id) ==
    /\ id \in membership
    /\ membership' = membership \ {id}
    /\ changed' = changed \cup {id}
    /\ UNCHANGED <<inbox, nested, released, delivered, processed, before>>

\* the top-level watcher delivers one batch for all the changes since the
\* last one: each changed relation as it is now, added if live, removed if not
DeliverBatch ==
    /\ inbox = <<>>
    /\ changed # {}
    /\ inbox' = <<[added |-> changed \cap membership, removed |-> changed \ membership]>>
    /\ changed' = {}
    /\ delivered' = membership
    /\ UNCHANGED <<membership, nested, released, processed, before>>

\* the batch is processed without stopping the nested watchers of the
\* relations removed
ProcessBatchStartsOnly ==
    /\ inbox # <<>>
    /\ nested' = nested \cup inbox[1].added
    /\ released' = released \ inbox[1].added
    /\ processed' = inbox[1]
    /\ before' = nested
    /\ inbox' = <<>>
    /\ UNCHANGED <<membership, changed, delivered>>
\* the batch is processed: a nested watcher is started for each relation
\* added that has none, and the nested watcher of each relation removed is
\* stopped and released
ProcessBatch ==
    /\ inbox # <<>>
    /\ nested' = (nested \cup inbox[1].added) \ inbox[1].removed
    /\ released' = (released \cup (nested \cap inbox[1].removed)) \ inbox[1].added
    /\ processed' = inbox[1]
    /\ before' = nested
    /\ inbox' = <<>>
    /\ UNCHANGED <<membership, changed, delivered>>

NextRelations ==
    \/ \E id \in RelationIds : AddRelation(id) /\ UNCHANGED relationFrame
    \/ \E id \in RelationIds : RemoveRelation(id) /\ UNCHANGED relationFrame
    \/ DeliverBatch /\ UNCHANGED relationFrame
    \/ ProcessBatch /\ UNCHANGED relationFrame

SpecRelations == Init /\ [][NextRelations]_vars

(***************************************************************************)
(* cmd.Main (src/unnamed/part_000), one action per step of the command.    *)
(***************************************************************************)
\* f.Parse(allowIntersperse, arguments): flags are read until the arguments
\* end or, unless allowIntersperse, the first word that is not a flag; a flag
\* not defined is an error, the help error if it asks for help
RECURSIVE Parse(_, _, _, _)
Parse(f, allowIntersperse, arguments, positional) ==
    IF arguments = <<>> THEN [err |-> NilErr, Args |-> positional]
    ELSE LET word == Head(arguments)
         IN  IF word \notin FlagWords
               THEN IF allowIntersperse
                      THEN Parse(f, allowIntersperse, Tail(arguments),
                                 Append(positional, word))
                      ELSE [err |-> NilErr, Args |-> positional \o arguments]
             ELSE IF word \in f.Defined
               THEN Parse(f, allowIntersperse, Tail(arguments), positional)
             ELSE IF word = "--help"
               THEN [err |-> ErrHelp, Args |-> positional \o Tail(arguments)]
             ELSE [err |-> Errorf(<<"flag provided but not defined", word>>),
                   Args |-> positional \o Tail(arguments)]

\* ParseArgs(c, f, args)
ParseArgs(c, f, arguments) == Parse(f, ~c.Super, arguments, <<>>)

\* handleCommandError with the help error taken for any other error
handleCommandErrorNoHelp(c, err) ==
    IF err # NilErr
      THEN [rc |-> 2, done |-> TRUE, out |-> <<<<"error", err>>>>]
      ELSE [rc |-> 0, done |-> FALSE, out |-> <<>>]
\* handleCommandError(c, ctx, err, f): the code, whether Main is done, and
\* what is written to ctx.Stderr
handleCommandError(c, err) ==
    IF err = ErrHelp
      THEN [rc |-> 0, done |-> TRUE, out |-> <<<<"help", c.Name>>>>]
    ELSE IF err # NilErr
      THEN [rc |-> 2, done |-> TRUE, out |-> <<<<"error", err>>>>]
    ELSE [rc |-> 0, done |-> FALSE, out |-> <<>>]

\* Main(c, ctx, args) up to c.SetFlags(f)
MainSetFlags(c, arguments) ==
    /\ mainPc = "start"
    /\ cmd' = c
    /\ args' = arguments
    /\ flagSet' = [NewFlagSet EXCEPT !.Defined = c.Flags]
    /\ trace' = Append(trace, "SetFlags")
    /\ mainPc' = "parse"
    /\ UNCHANGED <<stepErrs, stderr, rc>>

\* Main after a step that goes through handleCommandError
MainHandled(step, err, next) ==
    LET h == handleCommandError(cmd, err)
    IN  /\ trace' = Append(trace, step)
        /\ stepErrs' = [stepErrs EXCEPT ![step] = err]
        /\ stderr' = stderr \o h.out
        /\ IF h.done
             THEN rc' = <<h.rc>> /\ mainPc' = "returned"
             ELSE rc' = rc /\ mainPc' = next
        /\ UNCHANGED <<cmd, args>>

MainParseArgs ==
    /\ mainPc = "parse"
    /\ LET parsed == ParseArgs(cmd, flagSet, args)
       IN  /\ flagSet' = [flagSet EXCEPT !.Args = parsed.Args]
           /\ MainHandled("ParseArgs", parsed.err, "init")

\* c.Init(f.Args()) returning err
MainInit(err) ==
    /\ mainPc = "init"
    /\ MainHandled("Init", err, "run")
    /\ UNCHANGED flagSet

\* c.Run(ctx) returning err
MainRun(err) ==
    /\ mainPc = "run"
    /\ trace' = Append(trace, "Run")
    /\ stepErrs' = [stepErrs EXCEPT !.Run = err]
    /\ stderr' = IF err # NilErr /\ err # ErrSilent
                   THEN Append(stderr, <<"error", err>>)
                   ELSE stderr
    /\ rc' = IF err # NilErr THEN <<1>> ELSE <<0>>
    /\ mainPc' = "returned"
    /\ UNCHANGED <<cmd, args, flagSet>>

NextMain ==
    \/ \E c \in Commands, arguments \in ArgLists :
          MainSetFlags(c, arguments) /\ UNCHANGED mainFrame
    \/ MainParseArgs /\ UNCHANGED mainFrame
    \/ \E err \in InitErrs : MainInit(err) /\ UNCHANGED mainFrame
    \/ \E err \in RunErrs : MainRun(err) /\ UNCHANGED mainFrame

SpecMain == Init /\ [][NextMain]_vars

(***************************************************************************)
(* Properties of Machine.WaitAgentAlive (checked under SpecWait).          *)
(***************************************************************************)
WaitReturned == wpc = "done" /\ wres.status = "returned"
WaitReturnedNil == WaitReturned /\ wres.err = NilErr
WaitPanicked == wpc = "done" /\ wres.status = "panicked"

C2_PanicIffTwoDead ==
    wpc = "done" =>
        /\ wres.status \in {"returned", "panicked"}
        /\ wres.status = "panicked" <=> wnotes = <<FALSE, FALSE>>
        /\ wres.status = "panicked" => wfired = "change"
        /\ wres.status = "returned" =>
              wres.err.cause \in {"nil", ErrTimeout} \cup WatcherErrs

\* C2 witness: a call that ended in the fatal outcome.
C2_Witness == WaitPanicked /\ wnotes = <<FALSE, FALSE>>

\* the dead notifications of the call were all received before start + T
DeadNotesInsideWindow ==
    /\ TRUE \notin Range(wnotes)
    /\ Len(wnotes) <= 1
    /\ \A k \in 1..Len(wnoteAt) : wnoteAt[k] < wstart + wtimeout

\* C3 (as claimed): with no alive notification, one dead notification at most,
\* received inside the window, and no watcher death within the timeout T of
\* the start of the call, the call returns the timeout error at the instant
\* start + T, and is not still blocked after that instant.
C3_TimeoutMeasuredFromStart ==
    /\ ( /\ wpc = "done"
         /\ DeadNotesInsideWindow
         /\ (pwDead => pwDeadAt > wstart + wtimeout) )
       => /\ WaitReturned
          /\ wres.err.cause = ErrTimeout
          /\ wend = wstart + wtimeout
    /\ ( /\ wpc = "select"
         /\ DeadNotesInsideWindow
         /\ ~pwDead )
       => now <= wstart + wtimeout

\* C4: while a call is blocked the watcher holds exactly the one subscription
\* (globalKey, ch) the call registered; once the call has ended, on whichever
\* path, the watcher holds no subscription made by WaitAgentAlive.
C4_SubscriptionReleased ==
    /\ wpc = "select" => watches = {<<globalKey(wid), wch>>}
    /\ wpc \in {"idle", "done"} => watches = {}

\* C4 witness: a second call has ended, by the fatal outcome, with nothing
\* left registered.
C4_Witness == WaitPanicked /\ calls >= 2 /\ watches = {}

\* C5: a call ended by the watcher-died case returns the watcher's own error
\* wrapped with the machine context, which is neither nil nor the timeout
\* error; the timeout error is returned only by the timer case, after the
\* timer's instant was reached.
C5_WatcherErrPropagated ==
    wpc = "done" =>
        /\ wfired = "dead" =>
              /\ WaitReturned
              /\ pwDead
              /\ wres.err = [ctx |-> <<WaitContext(wid)>>, cause |-> pwErr]
              /\ wres.err.cause \notin {"nil", ErrTimeout}
        /\ wres.err.cause = ErrTimeout =>
              /\ wfired = "timer"
              /\ wend >= wtimer

\* C5 witness: the watcher died before the timer and before any notification,
\* and the call returned its error.
C5_Witness ==
    /\ WaitReturned
    /\ wfired = "dead"
    /\ wnotes = <<>>
    /\ pwDeadAt < wtimer
    /\ wres.err.cause \in WatcherErrs

\* C20: every WaitAgentAlive call ends, by a return or by the fatal outcome,
\* whatever the watcher sends or does not send, given that time passes and a
\* ready case of the select is taken; and a call receives at most two change
\* notifications.
C20_WaitTerminates ==
    /\ (wpc = "select") ~> (wpc = "done")
    /\ [](Len(wnotes) <= 2)

\* C20 witness: the last call allowed has ended by its timer, re-armed after
\* the one dead notification the call received, later than MaxTime.
C20_Witness ==
    /\ wpc = "done"
    /\ calls = MaxCalls
    /\ wfired = "timer"
    /\ wnotes = <<FALSE>>
    /\ wend > MaxTime

(***************************************************************************)
(* Properties of the handle operations (checked under Spec, and under      *)
(* SpecEnsure for the two-caller scenario).                                *)
(***************************************************************************)
HandleOps == {"EnsureDying", "EnsureDead", "Refresh", "SetInstanceId", "SetAgentTools"}
\* the last step was the call op on a handle
LastCall(op) == last.op = op /\ last.h \in Handles
\* the stored document existed, with Life l, when the last call was made
PreLife(l) == FindId(last.pre, TheMachine) # {} /\ StoredLife(last.pre) = l
\* the stored document was gone when the last call was made
PreRemoved == FindId(last.pre, TheMachine) = {}
\* the tools passed to the last SetAgentTools call were well-formed
ValidTools == last.arg[1].Series # "" /\ last.arg[1].Arch # ""

\* C6 (as claimed): Life() on a handle never goes back: whatever call was last
\* made on a handle, the Life it shows after the call is not below the Life it
\* showed before it.
C6_HandleLifeMonotonic ==
    last.op \in HandleOps /\ last.h \in Handles =>
        LifeRank(m[last.h].doc.Life) >= LifeRank(last.predoc.Life)

\* C7: when both callers have run EnsureDying and then EnsureDead, all four
\* calls returned nil, the stored Life is Dead, and the Life values committed
\* are Alive, Dying, Dead, each transition committed once; at every moment the
\* committed values are a prefix of that sequence.
C7_ConcurrentEnsure ==
    /\ \E k \in 1..3 : lifeLog = SubSeq(<<Alive, Dying, Dead>>, 1, k)
    /\ (\A c \in Handles : epc[c] = 2) =>
          /\ \A c \in Handles : eres[c] = <<NilErr, NilErr>>
          /\ FindId(machines, TheMachine) # {}
          /\ StoredLife(machines) = Dead
          /\ lifeLog = <<Alive, Dying, Dead>>

\* C7 witness: both callers are through, the last call made being an
\* EnsureDead that found the stored Life already Dead.
C7_Witness ==
    /\ \A c \in Handles : epc[c] = 2 /\ Len(eres[c]) = 2
    /\ LastCall("EnsureDead")
    /\ PreLife(Dead)

\* C8: EnsureDying called while the stored Life is Dying or Dead, and
\* EnsureDead called while it is Dead, return nil and leave the stored
\* document as it was; and a successful EnsureDying (EnsureDead) leaves the
\* stored Life at Dying or Dead (at Dead), so a second call in a row is such
\* a no-op.
C8_EnsureIdempotent ==
    /\ ( \/ LastCall("EnsureDying") /\ (PreLife(Dying) \/ PreLife(Dead))
         \/ LastCall("EnsureDead") /\ PreLife(Dead) )
       => last.err = NilErr /\ machines = last.pre
    /\ LastCall("EnsureDying") /\ last.err = NilErr =>
          StoredLife(machines) \in {Dying, Dead}
    /\ LastCall("EnsureDead") /\ last.err = NilErr =>
          StoredLife(machines) = Dead

\* C8 witness: EnsureDying was called on a handle still showing Alive while
\* the stored Life was Dead.
C8_Witness ==
    /\ LastCall("EnsureDying")
    /\ PreLife(Dead)
    /\ last.predoc.Life = Alive
    /\ last.err = NilErr

C10_RemovedIsNotFound ==
    ( /\ last.op \in HandleOps
      /\ last.h \in Handles
      /\ PreRemoved
      /\ last.err.cause # ErrStore
      /\ (last.op = "SetAgentTools" => ValidTools) )
    => last.err.cause = "not found"

\* C11: once SetInstanceId(x), x not empty, and the following Refresh have both
\* returned nil on handle 1, InstanceId() on it returns x and no error; and a
\* Refresh on handle 2 that returned nil after the commit leaves InstanceId()
\* on handle 2 returning x as well.
C11_RoundTrip ==
    /\ rpc = "refreshed" => InstanceId(1) = [id |-> rx, err |-> NilErr]
    /\ ( /\ rpc \in {"set", "refreshed"}
         /\ last.op = "Refresh" /\ last.h = 2 /\ last.err = NilErr )
       => InstanceId(2) = [id |-> rx, err |-> NilErr]

\* C11 witness: the round trip is complete, the Refresh having also fetched a
\* Life another handle had advanced, and handle 2 has not refreshed.
C11_Witness ==
    /\ rpc = "refreshed"
    /\ rx = "i-456"
    /\ m[1].doc.InstanceId = "i-456"
    /\ m[1].doc.Life = Dying
    /\ m[2].doc.InstanceId = ""

\* C12: a Refresh that returned nil has replaced the whole snapshot by the
\* document stored at the time of the call; one that returned an error (the
\* not-found error when the document was removed and the store answered) has
\* left the snapshot as it was; Id() on the handle is the same before and
\* after; the store itself is not written.
C12_RefreshAllOrNothing ==
    LastCall("Refresh") =>
        /\ m[last.h].doc.Id = last.predoc.Id
        /\ machines = last.pre
        /\ last.err = NilErr =>
              FindId(last.pre, last.predoc.Id) = {m[last.h].doc}
        /\ last.err # NilErr =>
              /\ m[last.h].doc = last.predoc
              /\ last.err.cause \in {"not found", ErrStore}
        /\ last.err.cause = "not found" <=> (PreRemoved /\ last.err.cause # ErrStore)

\* C12 witness: a Refresh returned nil on a handle whose snapshot was stale in
\* Life, InstanceId and Tools at once.
C12_Witness ==
    /\ LastCall("Refresh")
    /\ last.err = NilErr
    /\ last.predoc.Life # m[last.h].doc.Life
    /\ last.predoc.InstanceId # m[last.h].doc.InstanceId
    /\ last.predoc.Tools # m[last.h].doc.Tools

\* C13: malformed input is rejected before any I/O.  A SetAgentTools call
\* given an empty Series or an empty Arch returns an error, has handed no
\* operation to the transaction runner, and leaves the store and the handle's
\* snapshot (its Tools with it) as they were; a WatchRemoteApplication call
\* given a name that is not a valid application name returns a not-valid
\* error and no watcher, no facade call has been made and no watcher exists.
C13_RejectedBeforeIO ==
    /\ (LastCall("SetAgentTools") /\ ~ValidTools) =>
          /\ last.err # NilErr
          /\ last.ops = <<>>
          /\ machines = last.pre
          /\ m[last.h].doc = last.predoc
    /\ (wra.called /\ ~IsValidApplication(wra.service)) =>
          /\ wra.err.cause = "not valid"
          /\ wra.w = NoWatcher
          /\ facadeCalls = <<>>
          /\ appWatchers = {}

\* C13 witness: SetAgentTools was given an empty Arch on a machine that is
\* stored and not Dead, and WatchRemoteApplication a name ending in a hyphen.
C13_Witness ==
    /\ LastCall("SetAgentTools")
    /\ last.arg[1].Arch = ""
    /\ FindId(machines, TheMachine) # {}
    /\ StoredLife(machines) # Dead
    /\ wra.called
    /\ wra.service = <<"a", "-">>

\* the document stored for the machine before and after the last call
PreStored == CHOOSE d \in FindId(last.pre, TheMachine) : TRUE
NowStored == CHOOSE d \in FindId(machines, TheMachine) : TRUE
\* the last call was a mutator called while the machine was stored and not Dead
MutatorOnLive ==
    /\ LastCall("SetInstanceId") \/ LastCall("SetAgentTools")
    /\ PreLife(Alive) \/ PreLife(Dying)
\* document d with the field of the last call set to the value passed
WithFieldWritten(d) ==
    IF last.op = "SetInstanceId"
      THEN [d EXCEPT !.InstanceId = last.arg[1]]
      ELSE [d EXCEPT !.Tools = last.arg]

\* C17 (as claimed): a SetInstanceId or SetAgentTools call made while the
\* machine is stored with Life Alive or Dying succeeds, and the stored
\* document and the handle's snapshot are then what they were but for the
\* field written.
C17_SucceedsWritingOnlyItsField ==
    MutatorOnLive =>
        /\ last.err = NilErr
        /\ NowStored = WithFieldWritten(PreStored)
        /\ m[last.h].doc = WithFieldWritten(last.predoc)

\* C17 (amended): a SetInstanceId call, or a SetAgentTools call given
\* well-formed tools, made while the machine is stored with Life Alive or
\* Dying succeeds; the handle's snapshot is then what it was but for the field
\* written, and the stored document what it was but for the field written and
\* its txn-revno, which the transaction raised by one.
C17_SucceedsWritingItsFieldAndRevno ==
    (MutatorOnLive /\ (last.op = "SetAgentTools" => ValidTools)) =>
        /\ last.err = NilErr
        /\ NowStored = [WithFieldWritten(PreStored) EXCEPT !.TxnRevno = @ + 1]
        /\ m[last.h].doc = WithFieldWritten(last.predoc)

\* C17 witness: SetInstanceId wrote a new instance id while the machine was
\* stored Dying, on a handle whose snapshot still showed it Alive.
C17_Witness ==
    /\ LastCall("SetInstanceId")
    /\ PreLife(Dying)
    /\ last.predoc.Life = Alive
    /\ last.arg[1] # PreStored.InstanceId
    /\ last.err = NilErr

\* C19: a handle's cached Life is never ahead of the stored Life: for every
\* handle whose document is stored, cached Life <= stored Life in the order
\* Alive < Dying < Dead, so a handle shows Dead only if the stored document is
\* Dead; and when EnsureDying or EnsureDead has returned nil on a stored
\* document, the stored Life is at least the Life the handle then shows.
C19_CachedLifeNotAhead ==
    /\ FindId(machines, TheMachine) # {} =>
          \A h \in Handles :
              /\ LifeRank(m[h].doc.Life) <= LifeRank(StoredLife(machines))
              /\ m[h].doc.Life = Dead => StoredLife(machines) = Dead
    /\ ( /\ LastCall("EnsureDying") \/ LastCall("EnsureDead")
         /\ last.err = NilErr )
       => /\ FindId(machines, TheMachine) # {}
          /\ LifeRank(StoredLife(machines)) >= LifeRank(m[last.h].doc.Life)
          /\ m[last.h].doc.Life = IF last.op = "EnsureDying" THEN Dying ELSE Dead

\* C19 witness: EnsureDying returned nil on a handle of a machine that the
\* other handle had made Dead: the handle shows Dying, the store Dead, and the
\* other handle Dead.
C19_Witness ==
    /\ LastCall("EnsureDying")
    /\ last.err = NilErr
    /\ PreLife(Dead)
    /\ m[last.h].doc.Life = Dying
    /\ \E h \in Handles : m[h].doc.Life = Dead

(***************************************************************************)
(* Properties of Machine.Units (checked under SpecUnits).                  *)
(***************************************************************************)
\* C14 (as claimed): the list Units returns is the answer of one instant of
\* the call: the principal units assigned to the machine at that instant
\* together with the subordinates of exactly those.
C14_UnitsPointInTime ==
    upc = "returned" => Range(ures) \in truths

(***************************************************************************)
(* Properties of a change watcher (checked under SpecWatcher).             *)
(***************************************************************************)
\* C15: stopping a watcher is idempotent and unblocking.  Every Stop call
\* that has returned returned nil; once a Stop call has completed, no later
\* step (a second or later Stop among them) changes the loop or the batch,
\* and no batch is delivered; every receiver blocked on the channel once a
\* Stop call has completed is eventually released with the stopped
\* indication.
C15_StopIdempotentUnblocking ==
    /\ [](\A c \in Stoppers : stopErrs[c] = NilErr)
    /\ [](~lateBatch)
    /\ [][stopDone => (loop' = loop /\ batch' = batch /\ dying' = dying)]_vars
    /\ \A r \in Receivers :
          (stopDone /\ receivers[r] = "blocked") ~> (receivers[r] = "stopped")

\* C15 witness: both callers have been through Stop, one of them twice, a
\* batch was collected and never delivered, and a receiver that was blocked
\* has been released with the stopped indication.
C15_Witness ==
    /\ stopDone
    /\ stoppers = [c \in Stoppers |-> "returned"]
    /\ batch # {}
    /\ receivers[1] = "stopped"
    /\ receivers[2] = "blocked"

(***************************************************************************)
(* Properties of the relation-set watcher (checked under SpecRelations).   *)
(***************************************************************************)
\* C16: whenever every delivered batch has been processed, the running nested
\* watchers are exactly the relations that were live when the last batch was
\* delivered, and exactly the relations live now when nothing has changed
\* since; the last batch processed left a nested watcher running for each
\* relation it reported added and none for a relation it reported removed,
\* the stopped ones being released.
C16_NestedTrackMembership ==
    inbox = <<>> =>
        /\ nested = delivered
        /\ changed = {} => nested = membership
        /\ processed.added \subseteq nested
        /\ processed.removed \cap nested = {}
        /\ (before \cap processed.removed) \subseteq released
        /\ released \cap nested = {}

\* C16 witness: the last batch processed reported one relation added, one
\* removed that had a nested watcher, and one removed that never had one (it
\* was added and removed between two delivered batches).
C16_Witness ==
    /\ inbox = <<>>
    /\ processed.added # {}
    /\ processed.removed \cap before # {}
    /\ processed.removed \ (before \cup released) # {}

(***************************************************************************)
(* Properties of cmd.Main (checked under SpecMain).                        *)
(***************************************************************************)
MainSteps == <<"SetFlags", "ParseArgs", "Init", "Run">>
Made(step) == \E k \in 1..Len(trace) : trace[k] = step

\* C18: the steps made are SetFlags, ParseArgs, Init, Run in that order, up
\* to the first that failed: Init is made only if ParseArgs returned nil, Run
\* only if ParseArgs and Init returned nil.  Main returns 0 if ParseArgs or
\* Init returned the help error, 2 if one of them returned another error, 1
\* if Run returned an error (nothing being written to Stderr if it is
\* ErrSilent) and 0 if Run returned nil.
C18_MainOrderAndCodes ==
    /\ trace = SubSeq(MainSteps, 1, Len(trace))
    /\ Made("Init") => stepErrs.ParseArgs = NilErr
    /\ Made("Run") => stepErrs.ParseArgs = NilErr /\ stepErrs.Init = NilErr
    /\ mainPc = "returned" <=> rc # <<>>
    /\ mainPc = "returned" =>
         LET failed == IF stepErrs.ParseArgs # NilErr THEN stepErrs.ParseArgs
                       ELSE stepErrs.Init
         IN  IF failed # NilErr
               THEN /\ ~Made("Run")
                    /\ rc = IF failed = ErrHelp THEN <<0>> ELSE <<2>>
               ELSE /\ Made("Run")
                    /\ rc = IF stepErrs.Run # NilErr THEN <<1>> ELSE <<0>>
                    /\ stepErrs.Run = ErrSilent => stderr = <<>>

\* C18 witness: for a command that is not a SuperCommand, a flag after the
\* first word was parsed, Init returned nil, Run returned ErrSilent and Main
\* returned 1.
C18_Witness ==
    /\ mainPc = "returned"
    /\ ~cmd.Super
    /\ args = <<"status", "--debug">>
    /\ flagSet.Args = <<"status">>
    /\ stepErrs.Run = ErrSilent
    /\ rc = <<1>>

====
